---------------------------- MODULE Spec2Model ----------------------------
(***************************************************************************)
(* Model of ranobelib_to_epub: the acquisition pipeline                    *)
(* (get_ranobe_content.py, pipeline.py) and the EPUB assembler             *)
(* (create_epub.py).                                                       *)
(*                                                                         *)
(* Abstractions used throughout:                                           *)
(*  - a progress fraction is a pair <<num, den>> (exact rational);         *)
(*  - a file name is a record [stem, ext] (os.path.splitext view);         *)
(*  - an image source (the src attribute / a URL) is a record [kind, file] *)
(*    where kind is the prefix the code tests with startswith;             *)
(*  - an HTML string is the sequence of its <img> tags (text is dropped);  *)
(*  - a volume label / chapter number is a sequence of characters.         *)
(***************************************************************************)
EXTENDS Integers, Sequences, FiniteSets, TLC

VARIABLES
  \* ---- run_pipeline / get_ranobe_content ----
  pc,            \* position in run_pipeline / get_ranobe_content
  progressLog,   \* every fraction passed to progress(...), in call order
  reqKinds,      \* kinds of HTTP requests issued so far
  book_id, info, cover_local,
  chapters_list, \* result of get_chapters_list
  ci,            \* number of items progress.tqdm has yielded
  all_chapters,
  cur,           \* locals of the loop body: ch_data, tags, indices
  rt,            \* frame of the running get_chapter_data / download_image
  fs,            \* files under <out>/imgs : file name -> "none"|"img"|"junk"
  fetched,       \* stubs (by index) whose chapter request was answered with data
  record,        \* ranobe.json as written, or NoRecord
  cause,         \* why the run raised
  book,          \* what create_epub built
  \* ---- EpubCreator on a given record ----
  erec, efs,     \* input: record and image directory
  ebook,         \* output of create_epub
  \* ---- _doc_to_html ----
  ddoc, datts, dhtml,
  \* ---- _compress_image ----
  ccache, cfs, ccalls

pvars == <<pc, progressLog, reqKinds, book_id, info, cover_local,
           chapters_list, ci, all_chapters, cur, rt, fs, fetched, record,
           cause, book>>
evars == <<erec, efs, ebook>>
dvars == <<ddoc, datts, dhtml>>
cvars == <<ccache, cfs, ccalls>>
vars  == <<pvars, evars, dvars, cvars>>

---------------------------------------------------------------------------
(* Bounds *)
MaxChapters == 2     \* length of the chapter list the API returns
MaxRecChapters == 3  \* chapters of a record handed to EpubCreator
MaxNodes == 2        \* nodes of a doc handed to _doc_to_html
MaxCalls == 3        \* _compress_image calls on one EpubCreator

---------------------------------------------------------------------------
(* Generic helpers *)

Range(s) == { s[i] : i \in 1..Len(s) }

\* a <= b on fractions <<num, den>>, den > 0
FracLeq(a, b) == a[1] * b[2] <= b[1] * a[2]

---------------------------------------------------------------------------
(* Strings as character sequences *)

Digits == <<"0", "1", "2", "3", "4", "5", "6", "7", "8", "9">>

IsDigit(c) == \E i \in 1..10 : Digits[i] = c
DigitVal(c) == (CHOOSE i \in 1..10 : Digits[i] = c) - 1

\* code point order of the characters used by the model
CharCode(c) ==
  IF IsDigit(c) THEN 48 + DigitVal(c)
  ELSE IF c = "." THEN 46
  ELSE IF c = "a" THEN 97
  ELSE IF c = "b" THEN 98
  ELSE 120

\* Python's str < str
RECURSIVE StrLess(_, _)
StrLess(a, b) ==
  IF b = <<>> THEN FALSE
  ELSE IF a = <<>> THEN TRUE
  ELSE IF CharCode(Head(a)) # CharCode(Head(b))
       THEN CharCode(Head(a)) < CharCode(Head(b))
       ELSE StrLess(Tail(a), Tail(b))

RECURSIVE DigitsVal(_)
DigitsVal(s) ==
  IF s = <<>> THEN 0 ELSE DigitsVal(SubSeq(s, 1, Len(s) - 1)) * 10 + DigitVal(s[Len(s)])

AllDigits(s) == s # <<>> /\ \A i \in 1..Len(s) : IsDigit(s[i])

\* float(s) for the decimal forms "D+" and "D+.D": [ok, val] with val in
\* tenths; ok = FALSE stands for ValueError
ParseFloat(s) ==
  IF AllDigits(s) THEN [ok |-> TRUE, val |-> DigitsVal(s) * 10]
  ELSE IF /\ Len(s) >= 3
          /\ s[Len(s) - 1] = "."
          /\ IsDigit(s[Len(s)])
          /\ AllDigits(SubSeq(s, 1, Len(s) - 2))
       THEN [ok |-> TRUE,
             val |-> DigitsVal(SubSeq(s, 1, Len(s) - 2)) * 10 + DigitVal(s[Len(s)])]
       ELSE [ok |-> FALSE, val |-> 0]

\* str(n) for a natural number below 100
IntStr(n) == IF n < 10 THEN <<Digits[n + 1]>>
             ELSE <<Digits[(n \div 10) + 1], Digits[(n % 10) + 1]>>

\* str(x) of a float x >= 0 held in tenths: 10 -> "1.0", 15 -> "1.5"
FloatStr(t) == IntStr(t \div 10) \o <<".", Digits[(t % 10) + 1]>>

---------------------------------------------------------------------------
(* File names, image sources, tags, chapter bodies *)

FN(stem, ext) == [stem |-> stem, ext |-> ext]
EmptyName == FN("", "")

Src(kind, file) == [kind |-> kind, file |-> file]
NoSrc == Src("none", EmptyName)      \* the tag has no src attribute

Tag(src, loading) == [src |-> src, loading |-> loading]

T_remote == Tag(Src("https", FN("y", ".png")), TRUE)   \* https://host/x/y.png
T_upl    == Tag(Src("uploads", FN("b", ".jpg")), FALSE) \* /uploads/b.jpg
T_local  == Tag(Src("imgs", FN("c", ".png")), TRUE)     \* imgs/c.png
T_nosrc  == Tag(NoSrc, TRUE)
T_slash  == Tag(Src("https", EmptyName), FALSE)         \* https://host/x/
T_rel    == Tag(Src("path", FN("d", ".png")), TRUE)     \* ../d.png

Att(u, f) == [url |-> u, filename |-> f]
A_u1 == Att(Src("https", FN("u1", ".jpg")), FN("u1", ".jpg"))
A_u2 == Att(Src("uploads", FN("u2", ".png")), FN("u2", ".png"))

\* the text of the inline leaves of a paragraph, concatenated: whether
\* strip() leaves nothing, and the <img> tags its characters spell out
Text(blank, tags) == [blank |-> blank, tags |-> tags]
TxtEmpty  == Text(TRUE, <<>>)                      \* "" or "   "
TxtPlain  == Text(FALSE, <<>>)                     \* "some words"
TxtMarkup == Text(FALSE, <<Tag(Src("imgs", FN("x", ".png")), FALSE)>>)
                                                   \* 'see <img src="imgs/x.png"/>'

\* ProseMirror nodes
Para(text)   == [type |-> "paragraph", text |-> text, images |-> <<>>]
Image(ids)   == [type |-> "image", text |-> TxtEmpty, images |-> ids]
OtherNode    == [type |-> "heading", text |-> TxtPlain, images |-> <<>>]

\* the value of a chapter's "content": a str (HTML), a dict or anything else
Html(tags)   == [pytype |-> "str", type |-> "", tags |-> tags, nodes |-> <<>>]
Doc(nodes)   == [pytype |-> "dict", type |-> "doc", tags |-> <<>>, nodes |-> nodes]
DictNotDoc   == [pytype |-> "dict", type |-> "table", tags |-> <<>>, nodes |-> <<>>]
PyNone       == [pytype |-> "NoneType", type |-> "", tags |-> <<>>, nodes |-> <<>>]

\* what the chapter endpoint can answer: (content, attachments)
BodyShapes ==
  { [content |-> Html(<<>>), attachments |-> <<>>],
    [content |-> Html(<<T_remote>>), attachments |-> <<>>],
    [content |-> Html(<<T_upl, T_local>>), attachments |-> <<A_u1>>],
    [content |-> Html(<<T_nosrc, T_slash, T_rel>>), attachments |-> <<>>],
    [content |-> Doc(<<Para(TxtPlain), Image(<<"u1", "zz">>), OtherNode>>),
     attachments |-> <<A_u1>>],
    [content |-> PyNone, attachments |-> <<A_u2>>] }

FileNames ==
  { FN("y", ".png"), FN("b", ".jpg"), FN("c", ".png"), FN("d", ".png"),
    FN("img_unknown", ".jpg"), FN("u1", ".jpg"), FN("u2", ".png"),
    FN("x", ".png"), FN("cover", ".jpg") }


---------------------------------------------------------------------------
(* get_ranobe_content.py: inputs and pure helpers *)

\* book_url, cut at "/" after the host.  Segment "1234--kniga" matches
\* \d+--[\w-]+ entirely, "1234--kniga?p=1" only with a prefix.
Urls ==
  { <<"ru", "book", "1234--kniga?p=1">>,   \* pattern 1
    <<"ru", "1234--kniga", "read">>,       \* pattern 2
    <<"ru", "1234--kniga">>,               \* no "/" after the id
    <<"en", "book", "1234--kniga">>,
    <<"ru", "book", "about">> }

\* the longest prefix of a segment matching \d+--[\w-]+ ("" if none)
IdPrefix(seg) ==
  IF seg \in {"1234--kniga", "1234--kniga?p=1"} THEN "1234--kniga" ELSE ""

\* the whole segment matches \d+--[\w-]+
IsWholeId(seg) == seg = "1234--kniga"

NoId == ""

extract_book_id(u) ==
  LET m1 == { i \in 1..Len(u) : /\ i + 2 <= Len(u)
                                /\ u[i] = "ru" /\ u[i + 1] = "book"
                                /\ IdPrefix(u[i + 2]) # "" }
      m2 == { i \in 1..Len(u) : /\ i + 2 <= Len(u)
                                /\ u[i] = "ru" /\ IsWholeId(u[i + 1]) }
      first(m) == CHOOSE i \in m : \A j \in m : i <= j
  IN IF m1 # {} THEN IdPrefix(u[first(m1) + 2])
     ELSE IF m2 # {} THEN u[first(m2) + 1]
     ELSE NoId

\* outcome of one requests.get: status 200, another status, or an exception
Outcomes == {"ok", "status", "error"}

NoInfo == [kind |-> "None"]
\* r.json().get('data', {}) of the book endpoint
InfoAnswers == { [kind |-> "data", rus_name |-> "T"], [kind |-> "empty"] }
\* a mutation: the test of the book info is lost
InfoUnchecked(i) == TRUE

\* "if not info" is false
InfoTruthy(i) == i.kind = "data"

NoCover == [kind |-> "None"]
\* data.cover.default of the book endpoint: a URL or None
CoverAnswers == { [kind |-> "url", src |-> Src("https", FN("cv", ".jpg"))], NoCover }

\* chapters of the book as the list endpoint knows them; chapter is the
\* float(number) in tenths
StubPool ==
  { [id |-> 11, tom |-> 1, chapter |-> 10],
    [id |-> 12, tom |-> 1, chapter |-> 15],
    [id |-> 21, tom |-> 2, chapter |-> 10] }

\* the answers of the list endpoint: lists without repetition
ApiLists ==
  { s \in UNION { [1..n -> StubPool] : n \in 0..MaxChapters } :
      \A i, j \in 1..Len(s) : i # j => s[i] # s[j] }

\* key=lambda x: (x['tom'], x['chapter'])
StubLess(a, b) == a.tom < b.tom \/ (a.tom = b.tom /\ a.chapter < b.chapter)

RECURSIVE InsertStub(_, _)
InsertStub(x, s) ==
  IF s = <<>> THEN <<x>>
  ELSE IF StubLess(x, Head(s)) THEN <<x>> \o s
       ELSE <<Head(s)>> \o InsertStub(x, Tail(s))

\* chapters.sort(...): stable, ascending
RECURSIVE SortStubs(_)
SortStubs(s) ==
  IF s = <<>> THEN <<>>
  ELSE InsertStub(s[Len(s)], SortStubs(SubSeq(s, 1, Len(s) - 1)))

\* the chapter argument as get_chapter_data puts it in the request
ChapterParam(chap_str) ==
  IF Len(chap_str) >= 2 /\ SubSeq(chap_str, Len(chap_str) - 1, Len(chap_str)) = <<".", "0">>
  THEN SubSeq(chap_str, 1, Len(chap_str) - 2)
  ELSE chap_str

NoData == [kind |-> "None"]

\* r.json().get('data') of the chapter endpoint for a stub: a body, or
\* None when the answer carries no data
ChapterAnswers(stub) ==
  { [kind |-> "data", id |-> stub.id, volume |-> IntStr(stub.tom),
     number |-> ChapterParam(FloatStr(stub.chapter)), name |-> "n",
     attachments |-> b.attachments, content |-> b.content] : b \in BodyShapes }
  \cup {NoData}

Truthy(d) == d.kind # "None"

\* the bytes of a 200 answer to an image request: an image or something else
RespBytes == {"img", "junk"}

get_chapter_data_max_retries == 5
get_chapter_data_sleep_time == 1
download_image_max_retries == 5
download_image_sleep_time == 1

\* a mutation: the sleep also follows the last attempt
get_chapter_data_sleep_always(attempt) == attempt <= get_chapter_data_max_retries

\* "if attempt < max_retries:" before time.sleep
get_chapter_data_should_sleep(attempt) == attempt < get_chapter_data_max_retries
download_image_should_sleep(attempt) == attempt < download_image_max_retries

NoFrame == [fn |-> "none", state |-> "idle", attempt |-> 0, requests |-> 0,
            sleeps |-> 0, waited |-> 0, oks |-> 0, data |-> NoData, ok |-> FALSE,
            ret |-> "", site |-> FALSE, save |-> EmptyName]

NewFrame(fn, ret, site, save) ==
  [fn |-> fn, state |-> "try", attempt |-> 1, requests |-> 0,
   sleeps |-> 0, waited |-> 0, oks |-> 0, data |-> NoData, ok |-> FALSE,
   ret |-> ret, site |-> site, save |-> save]

\* download_image(url, save_path) is entered; a url that does not start
\* with "https://" is requested from https://ranobelib.me
CallDownload(u, save, ret) == NewFrame("download_image", ret, u.kind # "https", save)

NoCur == [ch_data |-> NoData, tags |-> <<>>, ti |-> 0, ai |-> 0, content |-> PyNone]

NoRecord == [kind |-> "None"]
NoBook == [kind |-> "None"]

P(n, d) == <<n, d>>


---------------------------------------------------------------------------
(* create_epub.py: EpubCreator as functions of the record and the image   *)
(* directory.  A file is "none" (absent), "img" (Pillow decodes it),      *)
(* "junk" (readable, not an image) or "unreadable" (exists, cannot be     *)
(* opened).                                                                *)

Exists(files, n) == n \in DOMAIN files /\ files[n] # "none"

Jpeg(n) == [enc |-> "jpeg", of |-> n]     \* the re-encoded image
Raw(n)  == [enc |-> "raw", of |-> n]      \* img_path.read_bytes()
NoBytes == [enc |-> "none", of |-> EmptyName]

\* _compress_image(img_path) with self._image_cache = cache (the cached
\* paths; a cached path holds Jpeg(path)).  opened: Image.open was called.
compress_image(cache, n, files) ==
  IF n \in cache
  THEN [raised |-> FALSE, data |-> Jpeg(n), cache |-> cache, opened |-> FALSE]
  ELSE IF Exists(files, n) /\ files[n] = "img"
  THEN [raised |-> FALSE, data |-> Jpeg(n), cache |-> cache \cup {n}, opened |-> TRUE]
  ELSE IF Exists(files, n) /\ files[n] = "junk"
  THEN [raised |-> FALSE, data |-> Raw(n), cache |-> cache, opened |-> TRUE]
  ELSE [raised |-> TRUE, data |-> NoBytes, cache |-> cache, opened |-> TRUE]

\* name_map.get(img_name): name_map[splitext(filename)[0]] = filename, a
\* later attachment overwriting an earlier one with the same stem
RECURSIVE name_map_get(_, _)
name_map_get(attachments, img_name) ==
  IF attachments = <<>> THEN EmptyName
  ELSE LET last == attachments[Len(attachments)]
       IN IF last.filename.stem = img_name THEN last.filename
          ELSE name_map_get(SubSeq(attachments, 1, Len(attachments) - 1), img_name)

\* the tags one image node contributes
RECURSIVE image_node_tags(_, _)
image_node_tags(ids, attachments) ==
  IF ids = <<>> THEN <<>>
  ELSE LET img_name == Head(ids)
           filename == name_map_get(attachments, img_name)
           rest == image_node_tags(Tail(ids), attachments)
       IN IF img_name = "" THEN rest
          ELSE IF filename # EmptyName
               THEN <<Tag(Src("imgs", filename), FALSE)>> \o rest
               ELSE rest

\* _doc_to_html(doc_content, attachments): the <img> tags of the HTML it
\* returns, in document order
RECURSIVE nodes_to_html(_, _)
nodes_to_html(nodes, attachments) ==
  IF nodes = <<>> THEN <<>>
  ELSE LET node == Head(nodes)
           rest == nodes_to_html(Tail(nodes), attachments)
       IN IF node.type = "paragraph"
          THEN (IF node.text.blank THEN <<>> ELSE node.text.tags) \o rest
          ELSE IF node.type = "image"
               THEN image_node_tags(node.images, attachments) \o rest
               ELSE rest

doc_to_html(doc_content, attachments) ==
  IF doc_content.type # "doc" THEN <<>>
  ELSE nodes_to_html(doc_content.nodes, attachments)

ImageItem(n) == [kind |-> "image", uid |-> <<"img_", n>>, file_name |-> <<"images/", n>>]

\* the loop over all_imgs of _process_chapter_content; st carries the
\* book's items, the cache and the Image.open calls made so far
RECURSIVE process_imgs(_, _, _)
process_imgs(tags, st, files) ==
  IF tags = <<>> \/ st.raised THEN [tags |-> tags, st |-> st]
  ELSE LET tag == Head(tags)
           go(tag1, st1) == LET r == process_imgs(Tail(tags), st1, files)
                            IN [tags |-> <<tag1>> \o r.tags, st |-> r.st]
       IN IF tag.src.kind = "imgs" /\ Exists(files, tag.src.file)
          THEN LET c == compress_image(st.cache, tag.src.file, files)
                   st1 == [st EXCEPT !.cache = c.cache,
                                     !.opens = IF c.opened THEN Append(@, tag.src.file) ELSE @]
               IN IF c.raised
                  THEN [tags |-> tags, st |-> [st1 EXCEPT !.raised = TRUE, !.error = "read_bytes"]]
                  ELSE go([tag EXCEPT !.src = Src("images", tag.src.file)],
                          [st1 EXCEPT !.items = Append(@, ImageItem(tag.src.file))])
          ELSE go(tag, st)

\* _process_chapter_content(content, attachments): [raw, html, st] where
\* raw is the HTML before the images are rewritten
process_chapter_content(content, attachments, st, files) ==
  IF content.pytype = "str" \/ (content.pytype = "dict" /\ content.type = "doc")
  THEN LET raw == IF content.pytype = "str" THEN content.tags
                  ELSE doc_to_html(content, attachments)
           r == process_imgs(raw, st, files)
       IN [raw |-> raw, html |-> r.tags, st |-> r.st]
  ELSE [raw |-> <<>>, html |-> <<>>, st |-> st]


\* the keys of volumes_map in insertion order: each volume label at its
\* first occurrence in the chapter list
RECURSIVE volume_keys(_)
volume_keys(chapters) ==
  IF chapters = <<>> THEN <<>>
  ELSE LET before == volume_keys(SubSeq(chapters, 1, Len(chapters) - 1))
           v == chapters[Len(chapters)].volume
       IN IF v \in Range(before) THEN before ELSE Append(before, v)

\* volumes_map[vol]: the chapters of a volume in record order
chapters_of(chapters, vol) == SelectSeq(chapters, LAMBDA c : c.volume = vol)

\* _vol_key(v): float(v), or v itself when float raises
vol_key(v) ==
  LET f == ParseFloat(v)
  IN [isfloat |-> f.ok, val |-> f.val, str |-> IF f.ok THEN <<>> ELSE v]

\* key(a) < key(b) for two keys of the same type
vol_key_less(a, b) ==
  IF vol_key(a).isfloat THEN vol_key(a).val < vol_key(b).val
  ELSE StrLess(vol_key(a).str, vol_key(b).str)

\* sorted() compares a float with a str: TypeError
vol_sort_raises(vols) ==
  \E i, j \in 1..Len(vols) : vol_key(vols[i]).isfloat # vol_key(vols[j]).isfloat

RECURSIVE insert_vol(_, _)
insert_vol(x, s) ==
  IF s = <<>> THEN <<x>>
  ELSE IF vol_key_less(x, Head(s)) THEN <<x>> \o s
       ELSE <<Head(s)>> \o insert_vol(x, Tail(s))

\* sorted(volumes_map.keys(), key=_vol_key) when no comparison raises
RECURSIVE sorted_vols(_)
sorted_vols(vols) ==
  IF vols = <<>> THEN <<>>
  ELSE insert_vol(vols[Len(vols)], sorted_vols(SubSeq(vols, 1, Len(vols) - 1)))

\* float(c["chapter"]) raises ValueError for some chapter of the list
chapter_sort_raises(chs) == \E i \in 1..Len(chs) : ~ParseFloat(chs[i].chapter).ok

chapter_less(a, b) == ParseFloat(a.chapter).val < ParseFloat(b.chapter).val

RECURSIVE insert_chapter(_, _)
insert_chapter(x, s) ==
  IF s = <<>> THEN <<x>>
  ELSE IF chapter_less(x, Head(s)) THEN <<x>> \o s
       ELSE <<Head(s)>> \o insert_chapter(x, Tail(s))

\* sorted(volumes_map[vol], key=lambda c: float(c["chapter"]))
RECURSIVE sorted_chapters(_)
sorted_chapters(chs) ==
  IF chs = <<>> THEN <<>>
  ELSE insert_chapter(chs[Len(chs)], sorted_chapters(SubSeq(chs, 1, Len(chs) - 1)))

NoLink == [dead |-> TRUE, vol |-> <<>>]

\* the smallest volume by float, the earliest among equals:
\* sorted(volumes, key=lambda x: float(x))[0]
RECURSIVE first_by_float(_)
first_by_float(volumes) ==
  IF Len(volumes) = 1 THEN volumes[1]
  ELSE LET m == first_by_float(SubSeq(volumes, 1, Len(volumes) - 1))
           x == volumes[Len(volumes)]
       IN IF ParseFloat(x).val < ParseFloat(m).val THEN x ELSE m

\* the "Далее" link of _make_title_page: "#" or volume_<v>.xhtml#volume_<v>
make_title_page_link(chapters) ==
  LET volumes == [i \in 1..Len(chapters) |-> chapters[i].volume]
  IN IF volumes = <<>> THEN NoLink
     ELSE IF \E i \in 1..Len(volumes) : ~ParseFloat(volumes[i]).ok THEN NoLink
     ELSE [dead |-> FALSE, vol |-> first_by_float(volumes)]

SpineNav == [page |-> "nav", vol |-> <<>>]
SpineCover == [page |-> "cover", vol |-> <<>>]
SpineTitle == [page |-> "title", vol |-> <<>>]
SpineVol(v) == [page |-> "volume", vol |-> v]

StyleItem == [kind |-> "css", uid |-> <<"main_style">>, file_name |-> <<"style/main.css">>]
CoverPageItem == [kind |-> "html", uid |-> <<"cover_page">>, file_name |-> <<"cover.xhtml">>]
CoverImageItem == [kind |-> "cover_image", uid |-> <<"cover-img">>, file_name |-> <<"images/cover.jpg">>]
TitlePageItem == [kind |-> "html", uid |-> <<"title_page">>, file_name |-> <<"title_page.xhtml">>]
VolItem(v) == [kind |-> "html", uid |-> <<"volume_", v>>, file_name |-> <<"volume_", v, ".xhtml">>]

NoCoverImage == EmptyName      \* "cover_image": null

\* lines 56-77 of create_epub: the cover.  st0 has the style item only.
cover_step(rec, files, st) ==
  IF rec.cover_image # NoCoverImage /\ Exists(files, rec.cover_image)
  THEN LET c == compress_image(st.cache, rec.cover_image, files)
           st1 == [st EXCEPT !.items = Append(@, CoverPageItem),
                             !.spine = <<SpineCover>> \o @,
                             !.cache = c.cache,
                             !.opens = IF c.opened THEN Append(@, rec.cover_image) ELSE @]
       IN IF c.raised
          THEN [st1 EXCEPT !.cover_warning = TRUE]
          ELSE [st1 EXCEPT !.items = Append(@, CoverImageItem), !.cover_data = c.data]
  ELSE st

\* one chapter of a volume section: its heading and its processed content
ChapterPart(cinfo, r) ==
  [anchor |-> cinfo.id, chapter |-> cinfo.chapter, name |-> cinfo.name,
   raw |-> r.raw, html |-> r.html]

\* the loop "for cinfo in chapters" of one volume
RECURSIVE volume_parts(_, _, _)
volume_parts(chs, st, files) ==
  IF chs = <<>> \/ st.raised THEN [parts |-> <<>>, st |-> st]
  ELSE LET cinfo == Head(chs)
           r == process_chapter_content(cinfo.content, cinfo.attachments, st, files)
           rest == volume_parts(Tail(chs), r.st, files)
       IN IF r.st.raised THEN [parts |-> <<>>, st |-> r.st]
          ELSE [parts |-> <<ChapterPart(cinfo, r)>> \o rest.parts, st |-> rest.st]

\* the loop "for vol in sorted_vols": sections appended to the spine
RECURSIVE volume_sections(_, _, _, _)
volume_sections(vols, chapters, st, files) ==
  IF vols = <<>> \/ st.raised THEN st
  ELSE LET vol == Head(vols)
           chs == chapters_of(chapters, vol)
       IN IF chapter_sort_raises(chs)
          THEN [st EXCEPT !.raised = TRUE, !.error = "ValueError"]
          ELSE LET r == volume_parts(sorted_chapters(chs), st, files)
               IN IF r.st.raised THEN r.st
                  ELSE volume_sections(Tail(vols), chapters,
                         [r.st EXCEPT !.items = Append(@, VolItem(vol)),
                                      !.spine = Append(@, SpineVol(vol)),
                                      !.sections = Append(@, [vol |-> vol, heading |-> vol,
                                                              parts |-> r.parts])],
                         files)

TocTitle == [kind |-> "page", vol |-> <<>>, links |-> <<>>]

\* (epub.Section(v_title, v_fname), [epub.Link(v_fname#anchor, ...)])
TocVolume(sec) ==
  [kind |-> "section", vol |-> sec.vol,
   links |-> [i \in 1..Len(sec.parts) |->
                [file |-> sec.vol, anchor |-> sec.parts[i].anchor]]]

\* a mutation: the links of a volume in reverse order
build_toc_reversed(sections) ==
  <<TocTitle>> \o
  [i \in 1..Len(sections) |->
     [TocVolume(sections[i]) EXCEPT
        !.links = [k \in 1..Len(sections[i].parts) |->
                     [file |-> sections[i].vol,
                      anchor |-> sections[i].parts[Len(sections[i].parts) + 1 - k].anchor]]]]

\* self.book.toc: the title page, then one entry per volume section
build_toc(sections) ==
  <<TocTitle>> \o [i \in 1..Len(sections) |-> TocVolume(sections[i])]

EpubState0 ==
  [items |-> <<StyleItem>>, spine |-> <<SpineNav>>, cache |-> {}, opens |-> <<>>,
   raised |-> FALSE, error |-> "", cover_warning |-> FALSE, cover_data |-> NoBytes,
   sections |-> <<>>]

\* EpubCreator.create_epub() on the loaded record
create_epub(rec, files) ==
  LET st1 == cover_step(rec, files, EpubState0)
      link == make_title_page_link(rec.chapters)
      st2 == [st1 EXCEPT !.items = Append(@, TitlePageItem),
                         !.spine = Append(@, SpineTitle)]
      keys == volume_keys(rec.chapters)
      st3 == IF vol_sort_raises(keys)
             THEN [st2 EXCEPT !.raised = TRUE, !.error = "TypeError"]
             ELSE volume_sections(sorted_vols(keys), rec.chapters, st2, files)
  IN [kind |-> "book", raised |-> st3.raised, error |-> st3.error,
      items |-> st3.items, spine |-> st3.spine, sections |-> st3.sections,
      toc |-> IF st3.raised THEN <<>> ELSE build_toc(st3.sections),
      nav |-> ~st3.raised,      \* EpubNav and EpubNcx were added
      link |-> link, cache |-> st3.cache, opens |-> st3.opens,
      cover_warning |-> st3.cover_warning,
      written |-> ~st3.raised]


---------------------------------------------------------------------------
(* run_pipeline and get_ranobe_content, step by step *)

Others == <<evars, dvars, cvars>>

\* index/length as progress.tqdm reports it before yielding an item
TqdmFraction(i, n) == IF n = 0 THEN P(0, 1) ELSE P(i, n)

\* "if src_val.startswith("http") or src_val.startswith("/uploads/")"
needs_download(src) == src.kind \in {"https", "uploads"}

\* os.path.basename(urlparse(src).path) or "img_unknown.jpg"
html_filename(src) ==
  IF src.file = EmptyName THEN FN("img_unknown", ".jpg") ELSE src.file

\* "if download_image(...): tag["src"] = f"imgs/{filename}""
rewrite_src(tag, downloaded, filename) ==
  IF downloaded THEN [tag EXCEPT !.src = Src("imgs", filename)] ELSE tag

\* "if 'loading' in tag.attrs: del tag.attrs['loading']"
strip_loading(tag) == [tag EXCEPT !.loading = FALSE]

\* the chapter record appended to all_chapters
chapter_rec(ch_data, content) ==
  [id |-> ch_data.id, volume |-> ch_data.volume, chapter |-> ch_data.number,
   name |-> ch_data.name, attachments |-> ch_data.attachments, content |-> content]

\* a mutation: the record is put in front of the list
append_chapter_rec_front(chapters, rec) == <<rec>> \o chapters

\* "all_chapters.append(chapter_rec)"
append_chapter_rec(chapters, rec) == Append(chapters, rec)

\* a mutation: the doc is converted to HTML before it is stored
fix_img_links_in_doc_converted(doc_data, attachments) ==
  Html(doc_to_html(doc_data, attachments))

\* fix_img_links_in_doc: "return doc_data"
fix_img_links_in_doc_result(doc_data, attachments) == doc_data

\* run_pipeline up to and including extract_book_id
run_pipeline_begin ==
  /\ pc = "start"
  /\ progressLog' = progressLog \o <<P(0, 1), P(1, 10), P(0, 1), P(5, 100)>>
  /\ \E book_url \in Urls :
       /\ book_id' = extract_book_id(book_url)
  /\ IF book_id' = NoId
     THEN pc' = "raised" /\ cause' = "id"
     ELSE pc' = "get_book_info" /\ cause' = cause
  /\ UNCHANGED <<reqKinds, info, cover_local, chapters_list, ci, all_chapters,
                 cur, rt, fs, fetched, record, book, Others>>

get_book_info_call ==
  /\ pc = "get_book_info"
  /\ \E o \in Outcomes, a \in InfoAnswers :
       /\ reqKinds' = reqKinds \cup {"info"}
       /\ info' = IF o = "ok" THEN a ELSE NoInfo
       /\ IF o = "ok" /\ InfoTruthy(a)
          THEN /\ progressLog' = Append(progressLog, P(1, 10))
               /\ pc' = "get_cover_url"
               /\ cause' = cause
          ELSE /\ progressLog' = progressLog
               /\ pc' = "raised"
               /\ cause' = IF o = "error" THEN "info_transport" ELSE "info"
  /\ UNCHANGED <<book_id, cover_local, chapters_list, ci, all_chapters,
                 cur, rt, fs, fetched, record, book, Others>>

get_cover_url_call ==
  /\ pc = "get_cover_url"
  /\ \E o \in Outcomes, a \in CoverAnswers :
       /\ reqKinds' = reqKinds \cup {"cover"}
       /\ IF o = "error"
          THEN /\ pc' = "raised" /\ cause' = "cover_transport"
               /\ UNCHANGED <<rt, cover_local, progressLog>>
          ELSE IF o = "ok" /\ a.kind = "url"
          THEN /\ rt' = CallDownload(a.src, FN("cover", a.src.file.ext), "cover")
               /\ pc' = "download_image"
               /\ UNCHANGED <<cause, cover_local, progressLog>>
          ELSE /\ cover_local' = NoCoverImage
               /\ progressLog' = Append(progressLog, P(15, 100))
               /\ pc' = "get_chapters_list"
               /\ UNCHANGED <<cause, rt>>
  /\ UNCHANGED <<book_id, info, chapters_list, ci, all_chapters,
                 cur, fs, fetched, record, book, Others>>

\* one pass of the "for attempt in range(1, max_retries + 1)" loop of
\* download_image up to the sleep; "error" is any exception in the try
download_image_attempt ==
  /\ pc = "download_image" /\ rt.state = "try"
  /\ \E o \in Outcomes, b \in RespBytes :
       /\ reqKinds' = reqKinds \cup {"image"}
       /\ IF o = "ok"
          THEN /\ fs' = [fs EXCEPT ![rt.save] = b]
               /\ rt' = [rt EXCEPT !.requests = @ + 1, !.oks = @ + 1,
                                   !.state = "returned", !.ok = TRUE]
          ELSE /\ fs' = fs
               /\ rt' = [rt EXCEPT !.requests = @ + 1,
                                   !.state = IF download_image_should_sleep(rt.attempt)
                                             THEN "sleep"
                                             ELSE IF rt.attempt < download_image_max_retries
                                                  THEN "try" ELSE "returned",
                                   !.attempt = IF download_image_should_sleep(rt.attempt)
                                               THEN @ ELSE @ + 1]
  /\ UNCHANGED <<pc, progressLog, book_id, info, cover_local, chapters_list, ci,
                 all_chapters, cur, fetched, record, cause, book, Others>>

\* time.sleep(sleep_time), then the next pass or the end of the loop
download_image_sleep ==
  /\ pc = "download_image" /\ rt.state = "sleep"
  /\ rt' = [rt EXCEPT !.sleeps = @ + 1, !.waited = @ + download_image_sleep_time,
                      !.attempt = @ + 1,
                      !.state = IF rt.attempt < download_image_max_retries
                                THEN "try" ELSE "returned"]
  /\ UNCHANGED <<pc, progressLog, reqKinds, book_id, info, cover_local,
                 chapters_list, ci, all_chapters, cur, fs, fetched, record, cause,
                 book, Others>>

after_cover_download ==
  /\ pc = "download_image" /\ rt.state = "returned" /\ rt.ret = "cover"
  /\ cover_local' = IF rt.ok THEN rt.save ELSE NoCoverImage
  /\ progressLog' = Append(progressLog, P(15, 100))
  /\ pc' = "get_chapters_list"
  /\ rt' = NoFrame
  /\ UNCHANGED <<reqKinds, book_id, info, chapters_list, ci, all_chapters,
                 cur, fs, fetched, record, cause, book, Others>>

get_chapters_list_call ==
  /\ pc = "get_chapters_list"
  /\ \E o \in Outcomes, data \in ApiLists :
       /\ reqKinds' = reqKinds \cup {"chapters"}
       /\ IF o = "error"
          THEN /\ pc' = "raised" /\ cause' = "chapters_transport"
               /\ UNCHANGED <<chapters_list, ci>>
          ELSE /\ chapters_list' = IF o = "ok" THEN SortStubs(data) ELSE <<>>
               /\ ci' = 0
               /\ pc' = "tqdm_next"
               /\ cause' = cause
  /\ UNCHANGED <<progressLog, book_id, info, cover_local, all_chapters,
                 cur, rt, fs, fetched, record, book, Others>>

\* "for ch in chapters_iter": the next item, or the end of the loop
tqdm_next ==
  /\ pc = "tqdm_next"
  /\ progressLog' = Append(progressLog, TqdmFraction(ci, Len(chapters_list)))
  /\ IF ci < Len(chapters_list)
     THEN /\ ci' = ci + 1
          /\ rt' = NewFrame("get_chapter_data", "loop", TRUE, EmptyName)
          /\ pc' = "get_chapter_data"
     ELSE /\ pc' = "save"
          /\ UNCHANGED <<ci, rt>>
  /\ UNCHANGED <<reqKinds, book_id, info, cover_local, chapters_list,
                 all_chapters, cur, fs, fetched, record, cause, book, Others>>

get_chapter_data_attempt ==
  /\ pc = "get_chapter_data" /\ rt.state = "try"
  /\ \E o \in Outcomes, d \in ChapterAnswers(chapters_list[ci]) :
       /\ reqKinds' = reqKinds \cup {"chapter"}
       /\ fetched' = IF o = "ok" /\ d.kind = "data" THEN fetched \cup {ci} ELSE fetched
       /\ IF o = "ok"
          THEN rt' = [rt EXCEPT !.requests = @ + 1, !.oks = @ + 1,
                                !.state = "returned", !.data = d]
          ELSE rt' = [rt EXCEPT !.requests = @ + 1,
                                !.state = IF get_chapter_data_should_sleep(rt.attempt)
                                          THEN "sleep"
                                          ELSE IF rt.attempt < get_chapter_data_max_retries
                                               THEN "try" ELSE "returned",
                                !.attempt = IF get_chapter_data_should_sleep(rt.attempt)
                                            THEN @ ELSE @ + 1]
  /\ UNCHANGED <<pc, progressLog, book_id, info, cover_local, chapters_list, ci,
                 all_chapters, cur, fs, record, cause, book, Others>>

get_chapter_data_sleep ==
  /\ pc = "get_chapter_data" /\ rt.state = "sleep"
  /\ rt' = [rt EXCEPT !.sleeps = @ + 1, !.waited = @ + get_chapter_data_sleep_time,
                      !.attempt = @ + 1,
                      !.state = IF rt.attempt < get_chapter_data_max_retries
                                THEN "try" ELSE "returned"]
  /\ UNCHANGED <<pc, progressLog, reqKinds, book_id, info, cover_local,
                 chapters_list, ci, all_chapters, cur, fs, fetched, record, cause,
                 book, Others>>

\* "if not ch_data: continue", else the dispatch on the shape of content
after_get_chapter_data ==
  /\ pc = "get_chapter_data" /\ rt.state = "returned"
  /\ rt' = NoFrame
  /\ IF ~Truthy(rt.data)
     THEN /\ pc' = "tqdm_next"
          /\ UNCHANGED cur
     ELSE /\ cur' = [ch_data |-> rt.data, tags |-> rt.data.content.tags,
                     ti |-> 1, ai |-> 1, content |-> rt.data.content]
          /\ pc' = IF rt.data.content.pytype = "str" THEN "fix_img_links_in_html"
                   ELSE IF rt.data.content.pytype = "dict" /\ rt.data.content.type = "doc"
                        THEN "fix_img_links_in_doc"
                        ELSE "attachments"
  /\ UNCHANGED <<progressLog, reqKinds, book_id, info, cover_local, chapters_list,
                 ci, all_chapters, fs, fetched, record, cause, book, Others>>

\* one <img> of fix_img_links_in_html up to its download_image call
fix_img_links_in_html_tag ==
  /\ pc = "fix_img_links_in_html" /\ cur.ti <= Len(cur.tags)
  /\ LET tag == cur.tags[cur.ti]
     IN IF tag.src.kind # "none" /\ needs_download(tag.src)
        THEN /\ cur' = [cur EXCEPT !.tags[cur.ti] = strip_loading(tag)]
             /\ rt' = CallDownload(tag.src, html_filename(tag.src), "html")
             /\ pc' = "download_image"
        ELSE /\ cur' = [cur EXCEPT !.tags[cur.ti] = strip_loading(tag), !.ti = @ + 1]
             /\ UNCHANGED <<rt, pc>>
  /\ UNCHANGED <<progressLog, reqKinds, book_id, info, cover_local, chapters_list,
                 ci, all_chapters, fs, fetched, record, cause, book, Others>>

after_html_download ==
  /\ pc = "download_image" /\ rt.state = "returned" /\ rt.ret = "html"
  /\ cur' = [cur EXCEPT !.tags[cur.ti] = rewrite_src(@, rt.ok, rt.save), !.ti = @ + 1]
  /\ pc' = "fix_img_links_in_html"
  /\ rt' = NoFrame
  /\ UNCHANGED <<progressLog, reqKinds, book_id, info, cover_local, chapters_list,
                 ci, all_chapters, fs, fetched, record, cause, book, Others>>

\* "return str(soup)" and "content = new_html"
fix_img_links_in_html_return ==
  /\ pc = "fix_img_links_in_html" /\ cur.ti > Len(cur.tags)
  /\ cur' = [cur EXCEPT !.content = Html(cur.tags), !.ai = 1]
  /\ pc' = "attachments"
  /\ UNCHANGED <<progressLog, reqKinds, book_id, info, cover_local, chapters_list,
                 ci, all_chapters, rt, fs, fetched, record, cause, book, Others>>

\* one attachment of fix_img_links_in_doc
fix_img_links_in_doc_att ==
  /\ pc = "fix_img_links_in_doc" /\ cur.ai <= Len(cur.ch_data.attachments)
  /\ LET att == cur.ch_data.attachments[cur.ai]
     IN rt' = CallDownload(att.url, att.filename, "doc")
  /\ pc' = "download_image"
  /\ UNCHANGED <<progressLog, reqKinds, book_id, info, cover_local, chapters_list,
                 ci, all_chapters, cur, fs, fetched, record, cause, book, Others>>

after_doc_download ==
  /\ pc = "download_image" /\ rt.state = "returned" /\ rt.ret = "doc"
  /\ cur' = [cur EXCEPT !.ai = @ + 1]
  /\ pc' = "fix_img_links_in_doc"
  /\ rt' = NoFrame
  /\ UNCHANGED <<progressLog, reqKinds, book_id, info, cover_local, chapters_list,
                 ci, all_chapters, fs, fetched, record, cause, book, Others>>

\* "return doc_data": content stays the dict it was
fix_img_links_in_doc_return ==
  /\ pc = "fix_img_links_in_doc" /\ cur.ai > Len(cur.ch_data.attachments)
  /\ cur' = [cur EXCEPT !.ai = 1,
                        !.content = fix_img_links_in_doc_result(@, cur.ch_data.attachments)]
  /\ pc' = "attachments"
  /\ UNCHANGED <<progressLog, reqKinds, book_id, info, cover_local, chapters_list,
                 ci, all_chapters, rt, fs, fetched, record, cause, book, Others>>

\* "for att in attachments: download_image(url, local_file)"
attachments_download ==
  /\ pc = "attachments" /\ cur.ai <= Len(cur.ch_data.attachments)
  /\ LET att == cur.ch_data.attachments[cur.ai]
     IN rt' = CallDownload(att.url, att.filename, "att")
  /\ pc' = "download_image"
  /\ UNCHANGED <<progressLog, reqKinds, book_id, info, cover_local, chapters_list,
                 ci, all_chapters, cur, fs, fetched, record, cause, book, Others>>

after_att_download ==
  /\ pc = "download_image" /\ rt.state = "returned" /\ rt.ret = "att"
  /\ cur' = [cur EXCEPT !.ai = @ + 1]
  /\ pc' = "attachments"
  /\ rt' = NoFrame
  /\ UNCHANGED <<progressLog, reqKinds, book_id, info, cover_local, chapters_list,
                 ci, all_chapters, fs, fetched, record, cause, book, Others>>

\* "all_chapters.append(chapter_rec)"
append_chapter ==
  /\ pc = "attachments" /\ cur.ai > Len(cur.ch_data.attachments)
  /\ all_chapters' = append_chapter_rec(all_chapters, chapter_rec(cur.ch_data, cur.content))
  /\ cur' = NoCur
  /\ pc' = "tqdm_next"
  /\ UNCHANGED <<progressLog, reqKinds, book_id, info, cover_local, chapters_list,
                 ci, rt, fs, fetched, record, cause, book, Others>>

\* progress(0.95), json.dump(ranobe_data), progress(1.0), return
save_record ==
  /\ pc = "save"
  /\ record' = [kind |-> "record", id |-> book_id, title |-> info.rus_name,
                cover_image |-> cover_local, chapters |-> all_chapters]
  /\ progressLog' = progressLog \o <<P(95, 100), P(1, 1)>>
  /\ pc' = "assemble"
  /\ UNCHANGED <<reqKinds, book_id, info, cover_local, chapters_list, ci,
                 all_chapters, cur, rt, fs, fetched, cause, book, Others>>

\* progress(0.8), EpubCreator(ranobe_json_path).create_epub(), progress(1.0)
run_pipeline_assemble ==
  /\ pc = "assemble"
  /\ book' = create_epub(record, fs)
  /\ IF book'.raised
     THEN /\ progressLog' = Append(progressLog, P(8, 10))
          /\ pc' = "raised" /\ cause' = "create_epub"
     ELSE /\ progressLog' = progressLog \o <<P(8, 10), P(1, 1)>>
          /\ pc' = "done" /\ cause' = cause
  /\ UNCHANGED <<reqKinds, book_id, info, cover_local, chapters_list, ci,
                 all_chapters, cur, rt, fs, fetched, record, Others>>


---------------------------------------------------------------------------
(* The specification of one run_pipeline call *)

EmptyDir == [n \in FileNames |-> "none"]

NoDocResult == [done |-> FALSE, tags |-> <<>>]

\* the variables of the other specifications, at rest
EpubIdle == erec = NoRecord /\ efs = EmptyDir /\ ebook = NoBook
DocIdle == ddoc = Doc(<<>>) /\ datts = <<>> /\ dhtml = NoDocResult
CompressIdle == ccache = {} /\ cfs = EmptyDir /\ ccalls = <<>>

PipelineIdle ==
  /\ pc = "idle" /\ progressLog = <<>> /\ reqKinds = {}
  /\ book_id = NoId /\ info = NoInfo /\ cover_local = NoCoverImage
  /\ chapters_list = <<>> /\ ci = 0 /\ all_chapters = <<>> /\ cur = NoCur
  /\ rt = NoFrame /\ fs = EmptyDir /\ fetched = {} /\ record = NoRecord
  /\ cause = "" /\ book = NoBook

Init ==
  /\ pc = "start"
  /\ progressLog = <<>> /\ reqKinds = {}
  /\ book_id = NoId /\ info = NoInfo /\ cover_local = NoCoverImage
  /\ chapters_list = <<>> /\ ci = 0 /\ all_chapters = <<>> /\ cur = NoCur
  /\ rt = NoFrame /\ fs = EmptyDir /\ fetched = {} /\ record = NoRecord
  /\ cause = "" /\ book = NoBook
  /\ EpubIdle /\ DocIdle /\ CompressIdle

Next ==
  \/ run_pipeline_begin
  \/ get_book_info_call
  \/ get_cover_url_call
  \/ download_image_attempt
  \/ download_image_sleep
  \/ after_cover_download
  \/ get_chapters_list_call
  \/ tqdm_next
  \/ get_chapter_data_attempt
  \/ get_chapter_data_sleep
  \/ after_get_chapter_data
  \/ fix_img_links_in_html_tag
  \/ after_html_download
  \/ fix_img_links_in_html_return
  \/ fix_img_links_in_doc_att
  \/ after_doc_download
  \/ fix_img_links_in_doc_return
  \/ attachments_download
  \/ after_att_download
  \/ append_chapter
  \/ save_record
  \/ run_pipeline_assemble

Spec == Init /\ [][Next]_vars


---------------------------------------------------------------------------
(* EpubCreator(path).create_epub() on any record *)

RecChapter(id, volume, chapter, content, attachments) ==
  [id |-> id, volume |-> volume, chapter |-> chapter, name |-> "n",
   attachments |-> attachments, content |-> content]

T_gone == Tag(Src("imgs", FN("d", ".png")), FALSE)     \* imgs/d.png

RecChapterPool ==
  { RecChapter(1, <<"2">>, <<"1", "0">>, Html(<<T_local>>), <<>>),
    RecChapter(2, <<"2">>, <<"2">>, Html(<<T_local, T_remote, T_gone>>), <<>>),
    RecChapter(3, <<"1", "0">>, <<"1", ".", "5">>,
               Doc(<<Para(TxtPlain), Image(<<"u1", "zz">>)>>), <<A_u1>>),
    RecChapter(4, <<"a">>, <<"1">>, PyNone, <<>>),
    RecChapter(5, <<"b">>, <<"3">>, DictNotDoc, <<A_u2>>),
    RecChapter(6, <<"a", "b">>, <<"1">>, Html(<<T_nosrc>>), <<>>) }

EpubRecords ==
  { [kind |-> "record", id |-> "1234--kniga", title |-> "T",
     cover_image |-> cov, chapters |-> chs] :
      cov \in {NoCoverImage, FN("cover", ".jpg")},
      chs \in UNION { [1..n -> RecChapterPool] : n \in 0..MaxRecChapters } }

\* image directories: every combination of these files' states
EpubDirs ==
  { [n \in FileNames |->
       IF n = FN("cover", ".jpg") THEN cv
       ELSE IF n = FN("c", ".png") THEN c
       ELSE IF n = FN("u1", ".jpg") THEN u
       ELSE "none"] :
      cv \in {"none", "img", "unreadable"},
      c \in {"img", "junk"},
      u \in {"none", "img"} }

InitEpub ==
  /\ erec \in EpubRecords \cup {NoRecord}
  /\ efs \in EpubDirs
  /\ ebook = NoBook
  /\ PipelineIdle /\ DocIdle /\ CompressIdle

FileNotFound == [kind |-> "FileNotFoundError"]

\* EpubCreator(ranobe_json_path).create_epub(); the constructor raises
\* when the record does not exist
epub_main ==
  /\ ebook = NoBook
  /\ ebook' = IF erec = NoRecord THEN FileNotFound ELSE create_epub(erec, efs)
  /\ UNCHANGED <<erec, efs, pvars, dvars, cvars>>

NextEpub == epub_main

SpecEpub == InitEpub /\ [][NextEpub]_vars

---------------------------------------------------------------------------
(* _doc_to_html on any doc and attachment list *)

NodePool ==
  { Para(TxtPlain), Para(TxtEmpty), Para(TxtMarkup),
    Image(<<"u1">>), Image(<<"u1", "zz">>), Image(<<"", "a">>), OtherNode }

A_a1 == Att(Src("https", FN("a", ".jpg")), FN("a", ".jpg"))
A_a2 == Att(Src("https", FN("a", ".png")), FN("a", ".png"))

AttLists == { <<>>, <<A_u1>>, <<A_a1, A_a2>>, <<A_u1, A_a2, A_a1>> }

DocInputs ==
  { Doc(ns) : ns \in UNION { [1..n -> NodePool] : n \in 0..MaxNodes } }
  \cup {DictNotDoc}

InitDoc ==
  /\ ddoc \in DocInputs
  /\ datts \in AttLists
  /\ dhtml = NoDocResult
  /\ PipelineIdle /\ EpubIdle /\ CompressIdle

doc_to_html_call ==
  /\ ~dhtml.done
  /\ dhtml' = [done |-> TRUE, tags |-> doc_to_html(ddoc, datts)]
  /\ UNCHANGED <<ddoc, datts, pvars, evars, cvars>>

NextDoc == doc_to_html_call

SpecDoc == InitDoc /\ [][NextDoc]_vars

---------------------------------------------------------------------------
(* _compress_image called repeatedly on one EpubCreator *)

CompressPaths == { FN("c", ".png"), FN("u1", ".jpg") }

CompressDirs ==
  { [n \in FileNames |->
       IF n = FN("c", ".png") THEN c
       ELSE IF n = FN("u1", ".jpg") THEN u
       ELSE "none"] :
      c \in {"img", "junk", "unreadable"},
      u \in {"img", "junk", "unreadable"} }

InitCompress ==
  /\ ccache = {}
  /\ cfs \in CompressDirs
  /\ ccalls = <<>>
  /\ PipelineIdle /\ EpubIdle /\ DocIdle

\* one call self._compress_image(img_path)
compress_image_call ==
  /\ Len(ccalls) < MaxCalls
  /\ \E n \in CompressPaths :
       LET r == compress_image(ccache, n, cfs)
       IN /\ ccache' = r.cache
          /\ ccalls' = Append(ccalls, [path |-> n, opened |-> r.opened,
                                       raised |-> r.raised, data |-> r.data])
  /\ UNCHANGED <<cfs, pvars, evars, dvars>>

NextCompress == compress_image_call

SpecCompress == InitCompress /\ [][NextCompress]_vars


---------------------------------------------------------------------------
(* Properties *)

\* C1 (as claimed): the fractions passed to the progress callback during
\* one run_pipeline call are non-decreasing and lie in [0, 1].
C1_ProgressMonotone ==
  \A i \in 1..Len(progressLog) :
    /\ FracLeq(P(0, 1), progressLog[i]) /\ FracLeq(progressLog[i], P(1, 1))
    /\ i > 1 => FracLeq(progressLog[i - 1], progressLog[i])

RetryMax(f) == IF f.fn = "get_chapter_data" THEN get_chapter_data_max_retries
               ELSE download_image_max_retries
RetrySleepTime(f) == IF f.fn = "get_chapter_data" THEN get_chapter_data_sleep_time
                     ELSE download_image_sleep_time
RetrySucceeded(f) == IF f.fn = "get_chapter_data" THEN f.oks = 1 ELSE f.ok

\* C2: get_chapter_data and download_image issue at most max_retries
\* requests, none after the first success; when every attempt fails they
\* issue exactly max_retries requests and return None / False; they sleep
\* sleep_time only between two consecutive attempts; every failure of an
\* attempt is absorbed by the loop (the call returns, it does not raise).
C2_RetryPolicy ==
  rt.fn \in {"get_chapter_data", "download_image"} =>
    /\ rt.requests <= RetryMax(rt)
    /\ rt.oks <= 1
    /\ rt.oks = 1 => rt.state = "returned" /\ RetrySucceeded(rt)
    /\ rt.state = "returned" /\ rt.oks = 0 =>
         /\ rt.requests = RetryMax(rt)
         /\ ~Truthy(rt.data) /\ ~rt.ok
    /\ rt.state = "returned" => rt.sleeps = rt.requests - 1
    /\ rt.state = "sleep" => rt.sleeps = rt.requests - 1 /\ rt.requests < RetryMax(rt)
    /\ rt.state = "try" => rt.sleeps = rt.requests /\ rt.requests = rt.attempt - 1
    /\ rt.waited = rt.sleeps * RetrySleepTime(rt)
    /\ pc \in {"get_chapter_data", "download_image"} /\ cause = ""

\* every attempt of a get_chapter_data call failed and the call returned
C2_Witness ==
  /\ rt.fn = "get_chapter_data" /\ rt.state = "returned"
  /\ rt.oks = 0 /\ rt.requests = 5 /\ rt.sleeps = 4

ChapterIds == [i \in 1..Len(all_chapters) |-> all_chapters[i].id]

RECURSIVE FetchedIds(_)
FetchedIds(n) ==
  IF n = 0 THEN <<>>
  ELSE IF n \in fetched THEN Append(FetchedIds(n - 1), chapters_list[n].id)
       ELSE FetchedIds(n - 1)

\* C3: between two chapters and after the loop, all_chapters holds exactly
\* the chapters whose request was answered with data, in the order of
\* chapters_list; a chapter whose fetch failed on every attempt is not in
\* it, and the loop went on to the end of the list before the record is
\* saved.
C3_ChaptersAreTheFetchedOnes ==
  /\ pc \in {"tqdm_next", "save", "assemble", "done"} => ChapterIds = FetchedIds(ci)
  /\ pc \in {"save", "assemble", "done"} =>
       /\ ci = Len(chapters_list)
       /\ \A i \in 1..Len(chapters_list) :
            i \notin fetched => chapters_list[i].id \notin Range(ChapterIds)

\* the first of two chapters failed on every attempt, the second is stored
C3_Witness ==
  /\ pc = "save" /\ Len(chapters_list) = 2
  /\ fetched = {2}
  /\ ChapterIds = <<chapters_list[2].id>>

\* C4: once the book id is not resolved or the book info is missing, the
\* run has raised: no cover, chapter-list, chapter or image request was
\* issued, no record was written and create_epub built nothing.
C4_FatalAbortsRun ==
  (pc # "start" /\ (book_id = NoId \/ (pc # "get_book_info" /\ info.kind # "data"))) =>
    /\ pc = "raised"
    /\ cause \in {"id", "info", "info_transport"}
    /\ reqKinds \subseteq {"info"}
    /\ book_id = NoId => reqKinds = {}
    /\ record = NoRecord /\ book = NoBook /\ all_chapters = <<>>
    /\ \A n \in FileNames : fs[n] = "none"

\* the metadata request was answered but carried no book info
C4_Witness == pc = "raised" /\ cause = "info" /\ info.kind = "empty"


SpineVols(b) ==
  LET vs == SelectSeq(b.spine, LAMBDA e : e.page = "volume")
  IN [i \in 1..Len(vs) |-> vs[i].vol]

\* a <= b as the claim orders volume labels: by number when both parse,
\* by their characters otherwise
LabelLeq(a, b) ==
  IF ParseFloat(a).ok /\ ParseFloat(b).ok
  THEN ParseFloat(a).val <= ParseFloat(b).val
  ELSE ~StrLess(b, a)

\* C5 (as claimed): for every record create_epub puts one section per
\* volume of the record in the spine, in non-decreasing order of volume
\* label, the chapters of each section in non-decreasing numeric order.
\* (Records with an image file that cannot be read are left aside.)
C5_SectionsOrdered ==
  (ebook.kind = "book" /\ ebook.error # "read_bytes") =>
    /\ Range(SpineVols(ebook)) = { erec.chapters[i].volume : i \in 1..Len(erec.chapters) }
    /\ \A i, j \in 1..Len(SpineVols(ebook)) :
         i < j => LabelLeq(SpineVols(ebook)[i], SpineVols(ebook)[j])
    /\ \A k \in 1..Len(ebook.sections) :
         \A i, j \in 1..Len(ebook.sections[k].parts) :
           i < j => ParseFloat(ebook.sections[k].parts[i].chapter).val
                      <= ParseFloat(ebook.sections[k].parts[j].chapter).val

AttNames(atts) == { atts[i].filename : i \in 1..Len(atts) }
AttStems(atts) == { atts[i].filename.stem : i \in 1..Len(atts) }

RECURSIVE Flatten(_)
Flatten(ss) == IF ss = <<>> THEN <<>> ELSE Head(ss) \o Flatten(Tail(ss))

\* the image identifiers of a doc, in document order
DocImageIds(doc) ==
  Flatten([i \in 1..Len(doc.nodes) |->
             IF doc.nodes[i].type = "image" THEN doc.nodes[i].images ELSE <<>>])

\* C6 (as claimed): every <img> tag of the HTML _doc_to_html returns
\* points at imgs/<filename of an attachment of the chapter>, there is one
\* tag per image identifier that matches an attachment, and none for an
\* identifier that matches no attachment.
C6_DocImagesResolve ==
  (dhtml.done /\ ddoc.type = "doc") =>
    /\ \A i \in 1..Len(dhtml.tags) :
         dhtml.tags[i].src.kind = "imgs" /\ dhtml.tags[i].src.file \in AttNames(datts)
    /\ Len(dhtml.tags) =
         Len(SelectSeq(DocImageIds(ddoc), LAMBDA x : x # "" /\ x \in AttStems(datts)))

CallsOn(n) == SelectSeq(ccalls, LAMBDA c : c.path = n)

\* C7 (as claimed): for every readable source image, all _compress_image
\* calls on it return the same bytes and Image.open ran for exactly one of
\* them, the first; every later call is a cache hit.
C7_CompressedOnce ==
  \A n \in CompressPaths :
    (cfs[n] \in {"img", "junk"} /\ CallsOn(n) # <<>>) =>
      /\ \A i \in 1..Len(CallsOn(n)) :
           ~CallsOn(n)[i].raised /\ CallsOn(n)[i].data = CallsOn(n)[1].data
      /\ CallsOn(n)[1].opened
      /\ \A i \in 2..Len(CallsOn(n)) : ~CallsOn(n)[i].opened

RecVolumes == { erec.chapters[i].volume : i \in 1..Len(erec.chapters) }
RecIdsOf(v) == { erec.chapters[i].id : i \in { k \in 1..Len(erec.chapters) : erec.chapters[k].volume = v } }
Built == ebook.kind = "book" /\ ~ebook.raised

TocVolumeEntriesOk ==
  \A k \in 1..Len(ebook.sections) :
    /\ ebook.toc[k + 1].kind = "section"
    /\ ebook.toc[k + 1].vol = SpineVols(ebook)[k]
    /\ ebook.sections[k].vol = SpineVols(ebook)[k]
    /\ Len(ebook.toc[k + 1].links) = Len(ebook.sections[k].parts)
    /\ \A i \in 1..Len(ebook.sections[k].parts) :
         /\ ebook.toc[k + 1].links[i].file = ebook.sections[k].vol
         /\ ebook.toc[k + 1].links[i].anchor = ebook.sections[k].parts[i].anchor
    /\ { ebook.sections[k].parts[i].anchor : i \in 1..Len(ebook.sections[k].parts) }
         = RecIdsOf(ebook.sections[k].vol)
    /\ Len(ebook.sections[k].parts) =
         Len(SelectSeq(erec.chapters, LAMBDA c : c.volume = ebook.sections[k].vol))

\* C8 (as claimed): the table of contents has exactly one top-level entry
\* per volume: N volumes give N top-level entries.
C8_OneTopLevelEntryPerVolume ==
  Built => Len(ebook.toc) = Cardinality(RecVolumes)

\* C8 (amended): the table of contents is the title page followed by
\* exactly one entry per volume (N volumes give N + 1 top-level entries),
\* the volume entries in the order of the volume sections of the spine;
\* each volume entry expands to the anchors of that volume's chapters in
\* the order of the section's headings, each link pointing into the
\* volume's own file at the id of a heading of that section.
C8_TocTitleThenVolumes ==
  Built =>
    /\ Len(ebook.toc) = Cardinality(RecVolumes) + 1
    /\ ebook.toc[1] = TocTitle
    /\ Len(ebook.sections) = Cardinality(RecVolumes)
    /\ Len(SpineVols(ebook)) = Cardinality(RecVolumes)
    /\ TocVolumeEntriesOk

\* a book of two volumes, one of them with two chapters
C8_Witness ==
  /\ Built /\ Len(ebook.sections) = 2
  /\ Len(ebook.toc) = 3
  /\ \E k \in 1..2 : Len(ebook.toc[k + 1].links) = 2
                      /\ ebook.toc[k + 1].links[1] # ebook.toc[k + 1].links[2]

StrContents == { all_chapters[i].content : i \in { k \in 1..Len(all_chapters) :
                                            all_chapters[k].content.pytype = "str" } }

\* C9 (as claimed): in the HTML stored for a markup body no <img> keeps a
\* loading attribute and every remote or site-relative src has been
\* rewritten to imgs/<file name>.
C9_OnlyLocalImagePaths ==
  \A c \in StrContents : \A i \in 1..Len(c.tags) :
    /\ ~c.tags[i].loading
    /\ c.tags[i].src.kind \notin {"https", "uploads"}

\* C10 (as claimed): the content of every stored chapter is a string.
C10_ContentIsString ==
  \A i \in 1..Len(all_chapters) : all_chapters[i].content.pytype = "str"

\* C10 (amended): the content get_ranobe_content stores is a string only
\* for a markup body, and then the normalized HTML, tag for tag; a
\* structured (doc) body is stored as the node tree it was fetched as, and
\* a body of any other shape is stored unchanged.  Nothing is converted to
\* HTML or to the empty string before the record is written.
C10_ContentKeepsItsShape ==
  /\ pc = "attachments" =>
       LET orig == cur.ch_data.content IN
       /\ orig.pytype = "str" =>
            /\ cur.content.pytype = "str"
            /\ Len(cur.content.tags) = Len(orig.tags)
            /\ \A i \in 1..Len(orig.tags) :
                 /\ ~cur.content.tags[i].loading
                 /\ cur.content.tags[i].src \in {orig.tags[i].src,
                                                 Src("imgs", html_filename(orig.tags[i].src))}
       /\ orig.pytype # "str" => cur.content = orig
  /\ \A i \in 1..Len(all_chapters) :
       /\ all_chapters[i].content.pytype \in {"str", "dict", "NoneType"}
       /\ all_chapters[i].content.pytype = "dict" =>
            all_chapters[i].content \in { b.content : b \in BodyShapes }
       /\ all_chapters[i].content.pytype = "NoneType" => all_chapters[i].content = PyNone
  /\ record # NoRecord => record.chapters = all_chapters

\* the written record holds a chapter whose content is the doc node tree
C10_Witness ==
  /\ record # NoRecord
  /\ \E i \in 1..Len(record.chapters) :
       record.chapters[i].content.pytype = "dict" /\ record.chapters[i].content.type = "doc"
  /\ \E i \in 1..Len(record.chapters) : record.chapters[i].content = PyNone

\* C11 (as claimed): once the chapter-list request has been issued and gave
\* no chapter, the run is not aborted: it goes on to write a record with zero
\* chapters and a book that has a title page and no volume section.
C11_ListFailureNotFatal ==
  ("chapters" \in reqKinds /\ chapters_list = <<>>) =>
    /\ pc \in {"tqdm_next", "save", "assemble", "done"}
    /\ record # NoRecord => record.chapters = <<>>
    /\ pc = "done" =>
         /\ book.written
         /\ SpineTitle \in Range(book.spine)
         /\ book.sections = <<>> /\ SpineVols(book) = <<>>

\* C12 (as claimed): the spine holds a cover page only if the record names
\* a cover file that exists; when processing the cover failed the failure
\* is not raised and the book holds no cover: no cover page in the spine,
\* no cover page and no cover image among the items.
C12_NoCoverAfterFailure ==
  ebook.kind = "book" =>
    /\ SpineCover \in Range(ebook.spine) =>
         erec.cover_image # NoCoverImage /\ Exists(efs, erec.cover_image)
    /\ ebook.cover_warning =>
         /\ ebook.error # "read_bytes"
         /\ erec.chapters = <<>> => ebook.written
         /\ SpineCover \notin Range(ebook.spine)
         /\ CoverPageItem \notin Range(ebook.items)
         /\ CoverImageItem \notin Range(ebook.items)

RecVolumeLabels == [i \in 1..Len(erec.chapters) |-> erec.chapters[i].volume]
AllLabelsNumeric == \A i \in 1..Len(RecVolumeLabels) : ParseFloat(RecVolumeLabels[i]).ok

\* the link points at the file and the heading of the first volume section
LinkTargetsFirstSection ==
  /\ ebook.sections # <<>>
  /\ ebook.link.vol = SpineVols(ebook)[1]
  /\ ebook.link.vol = ebook.sections[1].vol
  /\ ebook.link.vol = ebook.sections[1].heading

\* C13 (as claimed): the title page is always built; its forward link is
\* dead exactly when the record has no volume, and otherwise targets the
\* file and anchor of the first volume section.
C13_LinkDeadIffNoVolumes ==
  ebook.kind = "book" =>
    /\ TitlePageItem \in Range(ebook.items) /\ SpineTitle \in Range(ebook.spine)
    /\ ebook.link.dead <=> erec.chapters = <<>>
    /\ (Built /\ ~ebook.link.dead) => LinkTargetsFirstSection

\* C13, what _make_title_page does: the title page is always built; its
\* forward link is dead exactly when the record has no volume or one of its
\* volume labels does not parse as a number; whenever the link is live and
\* the book is built, it targets the file and anchor of the volume section
\* placed first.
C13_LinkToFirstNumericVolume ==
  ebook.kind = "book" =>
    /\ TitlePageItem \in Range(ebook.items) /\ SpineTitle \in Range(ebook.spine)
    /\ ebook.link.dead <=> (erec.chapters = <<>> \/ ~AllLabelsNumeric)
    /\ (Built /\ ~ebook.link.dead) => LinkTargetsFirstSection

ImageItemsOf(n) == { i \in 1..Len(ebook.items) : ebook.items[i] = ImageItem(n) }

\* C14 (as claimed): after create_epub the book holds at most one image
\* item for a source image file, however many <img> tags refer to it.
C14_ImageItemsDeduplicated ==
  ebook.kind = "book" => \A n \in FileNames : Cardinality(ImageItemsOf(n)) <= 1

\* the <img> tags of all chapters of all assembled volume sections
SectionTags ==
  Flatten([k \in 1..Len(ebook.sections) |->
             Flatten([i \in 1..Len(ebook.sections[k].parts) |->
                        ebook.sections[k].parts[i].html])])

\* a missing image file stops nothing: create_epub returns and every
\* chapter of the record has its heading and its content in a section
MissingImageIsNotFatal ==
  /\ ebook.raised => ebook.error \in {"TypeError", "ValueError"}
  /\ Built =>
       /\ \A c \in Range(erec.chapters) :
            \E k \in 1..Len(ebook.sections) : \E i \in 1..Len(ebook.sections[k].parts) :
              /\ ebook.sections[k].vol = c.volume
              /\ ebook.sections[k].parts[i].anchor = c.id
              /\ Len(ebook.sections[k].parts[i].html) = Len(ebook.sections[k].parts[i].raw)

\* C15 (as claimed): a missing local image file stops nothing, and no tag
\* that refers to a local image is left in a section without its image
\* item: every such tag reads images/<name> and the book holds that item.
C15_MissingImageOmitted ==
  ebook.kind = "book" =>
    /\ MissingImageIsNotFatal
    /\ Built =>
         \A i \in 1..Len(SectionTags) :
           SectionTags[i].src.kind \in {"imgs", "images"} =>
             /\ SectionTags[i].src.kind = "images"
             /\ ImageItem(SectionTags[i].src.file) \in Range(ebook.items)

============================================================================
